---- MODULE Spec2Model ----
(***************************************************************************)
(* BLE scan lifecycle and advertisement classification of ESP32-Paxcounter *)
(* (src/src/blecsan.cpp): the GAP callback gap_callback_handler, the       *)
(* registration gateway register_ble_callback and the two entry points     *)
(* start_BLEscan / stop_BLEscan, run against a model of the radio stack    *)
(* that executes the commands and delivers the events.                     *)
(***************************************************************************)
EXTENDS Integers, Sequences, FiniteSets, TLC

VARIABLES
  build,   \* compile-time switches: MACFILTER, COUNT_ENS, BLESCANTIME,
           \* BLESCANWINDOW, BLECOUNTER, LIBPAX
  cfg,     \* configData_t cfg: the runtime values enscount, blescantime, blescan
  MacQueue, \* the queue behind mac_add exists: macQueueInit() has run
  ble_scan_params, \* the static esp_ble_scan_params_t of register_ble_callback
  pc,      \* position of the task that calls start_BLEscan / stop_BLEscan
  radio,   \* the radio stack: controller, bluedroid, callback, scan, queue
  call,    \* the current (or last) entry-point call and what it did
  last,    \* the event of the last invocation of gap_callback_handler
  out,     \* what that invocation did: radio commands, mac_add calls
  cnt      \* how many events of each sort the handler has handled

vars == <<build, cfg, MacQueue, ble_scan_params, pc, radio, call, last, out, cnt>>

----------------------------------------------------------------------------
(* Bounds of the model.                                                    *)

\* handler invocations explored per behaviour
MaxEvents == 3
\* calls of start_BLEscan / stop_BLEscan explored per behaviour
MaxCalls == 3
\* length of the advertisement buffer ble_adv (62 on the device)
AdvBufLen == 4

----------------------------------------------------------------------------
(* Data.                                                                   *)

\* esp_ble_addr_type_t, blecsan.cpp:16-23
AddrTypes ==
  {"BLE_ADDR_TYPE_PUBLIC", "BLE_ADDR_TYPE_RANDOM",
   "BLE_ADDR_TYPE_RPA_PUBLIC", "BLE_ADDR_TYPE_RPA_RANDOM"}

\* static const char ensMagicBytes[] = "\x16\x6f\xfd"
ensMagicBytes == <<22, 111, 253>>

\* the bytes advertisements are built from: NUL and the signature's bytes
Bytes == {0, 22, 111, 253}

\* the values BLESCANTIME is built with: 0 scans without end, 1 in windows
ScanTimes == {0, 1}

\* the values BLESCANWINDOW [milliseconds] is built with
ScanWindows == {80}

\* the values of cfg.blescantime, a byte: the least, a usual one, the greatest
ScanCycleTimes == {0, 8, 255}

\* payloads of at most n bytes
RECURSIVE PayloadsUpTo(_)
PayloadsUpTo(n) ==
  IF n = 0 THEN {<<>>}
  ELSE LET S == PayloadsUpTo(n - 1)
       IN  S \cup {Append(p, b) : p \in {q \in S : Len(q) = n - 1}, b \in Bytes}

NoEvent ==
  [event |-> "NONE", search_evt |-> "NA", ble_addr_type |-> "NA",
   bda |-> "NA", rssi |-> 0, payload |-> <<>>]

ParamSetCompleteEvt ==
  [NoEvent EXCEPT !.event = "ESP_GAP_BLE_SCAN_PARAM_SET_COMPLETE_EVT"]

InquiryCompleteEvt ==
  [NoEvent EXCEPT !.event = "ESP_GAP_BLE_SCAN_RESULT_EVT",
                  !.search_evt = "ESP_GAP_SEARCH_INQ_CMPL_EVT"]

\* an event kind the switch has no case for
OtherEvt ==
  [NoEvent EXCEPT !.event = "ESP_GAP_BLE_SCAN_START_COMPLETE_EVT"]

\* a scan result whose search_evt is neither INQ_RES nor INQ_CMPL
OtherSubEvt ==
  [NoEvent EXCEPT !.event = "ESP_GAP_BLE_SCAN_RESULT_EVT",
                  !.search_evt = "ESP_GAP_SEARCH_DISC_RES_EVT"]

ResultEvt(t, a, r, p) ==
  [event |-> "ESP_GAP_BLE_SCAN_RESULT_EVT",
   search_evt |-> "ESP_GAP_SEARCH_INQ_RES_EVT",
   ble_addr_type |-> t, bda |-> a, rssi |-> r, payload |-> p]

\* the scan results the lifecycle specification delivers
ScanResults ==
  {ResultEvt(t, "bda1", -60, p) :
     t \in AddrTypes, p \in {<<22, 111, 253>>, <<0, 22, 111, 253>>}}

\* the scan results the classification specification delivers
AllScanResults ==
  {ResultEvt(t, "bda1", -60, p) : t \in AddrTypes, p \in PayloadsUpTo(AdvBufLen)}

\* device addresses, and signal strengths as the controller reports them: the
\* least, a usual one, the greatest of a signed byte
Addresses == {"bda1", "bda2"}
Rssis == {-128, -60, 127}

\* the scan results the sighting specification delivers
SightingResults ==
  {ResultEvt(t, a, r, p) :
     t \in AddrTypes, a \in Addresses, r \in Rssis, p \in {<<22, 111, 253>>, <<111>>}}

IsResult(e) ==
  /\ e.event = "ESP_GAP_BLE_SCAN_RESULT_EVT"
  /\ e.search_evt = "ESP_GAP_SEARCH_INQ_RES_EVT"

IsInquiryComplete(e) ==
  /\ e.event = "ESP_GAP_BLE_SCAN_RESULT_EVT"
  /\ e.search_evt = "ESP_GAP_SEARCH_INQ_CMPL_EVT"

IsParamSetComplete(e) == e.event = "ESP_GAP_BLE_SCAN_PARAM_SET_COMPLETE_EVT"

----------------------------------------------------------------------------
(* gap_callback_handler and what it calls.                                  *)

\* s occurs in b as a run of adjacent bytes
Occurs(s, b) ==
  \E i \in 1..(Len(b) - Len(s) + 1) : SubSeq(b, i, i + Len(s) - 1) = s

\* p->scan_rst.ble_adv: the payload, the rest of the buffer zero
AdvBuffer(p) == p \o [i \in 1..(AdvBufLen - Len(p)) |-> 0]

\* the C string strstr sees at ble_adv: the bytes before the first NUL
CString(b) ==
  IF \E i \in 1..Len(b) : b[i] = 0
  THEN SubSeq(b, 1, (CHOOSE i \in 1..Len(b) :
                       b[i] = 0 /\ \A j \in 1..(i - 1) : b[j] # 0) - 1)
  ELSE b

\* strstr((const char *)ble_adv, ensMagicBytes) != NULL: the results the call
\* can have. Without a NUL in the buffer the search runs past its end.
strstr_found(p) ==
  LET b == AdvBuffer(p)
  IN  IF Occurs(ensMagicBytes, CString(b)) THEN {TRUE}
      ELSE IF \E i \in 1..Len(b) : b[i] = 0 THEN {FALSE}
      ELSE {TRUE, FALSE}

\* esp_ble_gap_start_scanning(BLESCANTIME)
StartScanningCmd(b) == [cmd |-> "startScanning", duration |-> b.BLESCANTIME]

\* the filter with the test of BLE_ADDR_TYPE_RPA_RANDOM left out
FilterRejects_onlyRandom(b, e) ==
  /\ b.MACFILTER
  /\ e.ble_addr_type = "BLE_ADDR_TYPE_RANDOM"

\* the filter testing for both resolvable-private types instead
FilterRejects_anyRPA(b, e) ==
  /\ b.MACFILTER
  /\ e.ble_addr_type \in {"BLE_ADDR_TYPE_RPA_PUBLIC", "BLE_ADDR_TYPE_RPA_RANDOM"}

\* the MACFILTER test of the address type
FilterRejects(b, e) ==
  /\ b.MACFILTER
  /\ e.ble_addr_type \in {"BLE_ADDR_TYPE_RANDOM", "BLE_ADDR_TYPE_RPA_RANDOM"}

\* a mac_add call that passes the signal strength as an unsigned byte
mac_add_rssiAsUnsigned(e, kind) ==
  [address |-> e.bda, rssi |-> e.rssi % 256, kind |-> kind]

\* mac_add((uint8_t *)p->scan_rst.bda, p->scan_rst.rssi, kind)
mac_add(e, kind) == [address |-> e.bda, rssi |-> e.rssi, kind |-> kind]

\* the mac_add calls with the else of the signature test left out
AddToQueue_noElse(b, c, e, found) ==
  IF b.COUNT_ENS
  THEN IF c.enscount
       THEN IF found
            THEN <<mac_add(e, "MAC_SNIFF_BLE_ENS"), mac_add(e, "MAC_SNIFF_BLE")>>
            ELSE <<mac_add(e, "MAC_SNIFF_BLE")>>
       ELSE <<>>
  ELSE <<mac_add(e, "MAC_SNIFF_BLE")>>

\* the mac_add calls of one scan result that passed the filter
AddToQueue(b, c, e, found) ==
  IF b.COUNT_ENS
  THEN IF c.enscount
       THEN IF found THEN <<mac_add(e, "MAC_SNIFF_BLE_ENS")>>
            ELSE <<mac_add(e, "MAC_SNIFF_BLE")>>
       ELSE <<>>
  ELSE <<mac_add(e, "MAC_SNIFF_BLE")>>

Nothing == [cmds |-> <<>>, offers |-> <<>>, passed |-> FALSE]

\* a scan-result case that starts a scan for every result it passes on
ScanResultCase_resultRestarts(b, c, e) ==
  IF e.search_evt = "ESP_GAP_SEARCH_INQ_CMPL_EVT"
  THEN {[Nothing EXCEPT !.cmds = <<StartScanningCmd(b)>>]}
  ELSE IF e.search_evt = "ESP_GAP_SEARCH_INQ_RES_EVT"
  THEN IF FilterRejects(b, e) THEN {Nothing}
       ELSE {[Nothing EXCEPT !.cmds = <<StartScanningCmd(b)>>,
                             !.offers = AddToQueue(b, c, e, f),
                             !.passed = TRUE] : f \in strstr_found(e.payload)}
  ELSE {Nothing}

\* a scan-result case whose restart scans for the scan window instead
ScanResultCase_windowAsDuration(b, c, e) ==
  IF e.search_evt = "ESP_GAP_SEARCH_INQ_CMPL_EVT"
  THEN {[Nothing EXCEPT !.cmds =
           <<[cmd |-> "startScanning", duration |-> b.BLESCANWINDOW]>>]}
  ELSE IF e.search_evt = "ESP_GAP_SEARCH_INQ_RES_EVT"
  THEN IF FilterRejects(b, e) THEN {Nothing}
       ELSE {[Nothing EXCEPT !.offers = AddToQueue(b, c, e, f),
                             !.passed = TRUE] : f \in strstr_found(e.payload)}
  ELSE {Nothing}

\* the scan-result case of the handler
ScanResultCase(b, c, e) ==
  IF e.search_evt = "ESP_GAP_SEARCH_INQ_CMPL_EVT"
  THEN {[Nothing EXCEPT !.cmds = <<StartScanningCmd(b)>>]}
  ELSE IF e.search_evt = "ESP_GAP_SEARCH_INQ_RES_EVT"
  THEN IF FilterRejects(b, e) THEN {Nothing}
       ELSE {[Nothing EXCEPT !.offers = AddToQueue(b, c, e, f),
                             !.passed = TRUE] : f \in strstr_found(e.payload)}
  ELSE {Nothing}

\* the handler without the restart in the parameter-set-complete case
gap_callback_handler_noStartOnParam(b, c, e) ==
  IF e.event = "ESP_GAP_BLE_SCAN_RESULT_EVT" THEN ScanResultCase(b, c, e)
  ELSE {Nothing}

\* the handler restarting the scan twice on inquiry complete
gap_callback_handler_restartTwice(b, c, e) ==
  IF e.event = "ESP_GAP_BLE_SCAN_PARAM_SET_COMPLETE_EVT"
  THEN {[Nothing EXCEPT !.cmds = <<StartScanningCmd(b)>>]}
  ELSE IF e.event = "ESP_GAP_BLE_SCAN_RESULT_EVT"
  THEN IF e.search_evt = "ESP_GAP_SEARCH_INQ_CMPL_EVT"
       THEN {[Nothing EXCEPT !.cmds = <<StartScanningCmd(b), StartScanningCmd(b)>>]}
       ELSE ScanResultCase(b, c, e)
  ELSE {Nothing}

\* the handler without the restart on inquiry complete
gap_callback_handler_noRestart(b, c, e) ==
  IF e.event = "ESP_GAP_BLE_SCAN_PARAM_SET_COMPLETE_EVT"
  THEN {[Nothing EXCEPT !.cmds = <<StartScanningCmd(b)>>]}
  ELSE IF e.event = "ESP_GAP_BLE_SCAN_RESULT_EVT"
  THEN IF e.search_evt = "ESP_GAP_SEARCH_INQ_CMPL_EVT"
       THEN {Nothing}
       ELSE ScanResultCase(b, c, e)
  ELSE {Nothing}

\* the handler with a default case that starts a scan
gap_callback_handler_defaultRestarts(b, c, e) ==
  IF e.event = "ESP_GAP_BLE_SCAN_PARAM_SET_COMPLETE_EVT"
  THEN {[Nothing EXCEPT !.cmds = <<StartScanningCmd(b)>>]}
  ELSE IF e.event = "ESP_GAP_BLE_SCAN_RESULT_EVT"
  THEN ScanResultCase(b, c, e)
  ELSE {[Nothing EXCEPT !.cmds = <<StartScanningCmd(b)>>]}

\* what one invocation of the handler can do
gap_callback_handler(b, c, e) ==
  IF e.event = "ESP_GAP_BLE_SCAN_PARAM_SET_COMPLETE_EVT"
  THEN {[Nothing EXCEPT !.cmds = <<StartScanningCmd(b)>>]}
  ELSE IF e.event = "ESP_GAP_BLE_SCAN_RESULT_EVT"
  THEN ScanResultCase(b, c, e)
  ELSE {Nothing}

----------------------------------------------------------------------------
(* The radio stack: what its commands do and which events it delivers.      *)

RadioOff ==
  [controller |-> FALSE, bluedroid |-> FALSE, cb |-> FALSE, params |-> FALSE,
   scanning |-> FALSE, pendParam |-> FALSE, pendCmpl |-> FALSE]

\* esp_ble_gap_start_scanning: the host stack, when enabled, starts a scan
esp_ble_gap_start_scanning(r) ==
  IF r.bluedroid THEN [r EXCEPT !.scanning = TRUE] ELSE r

\* esp_ble_gap_stop_scanning: the host stack, when enabled, halts the scan
esp_ble_gap_stop_scanning(r) ==
  IF r.bluedroid THEN [r EXCEPT !.scanning = FALSE] ELSE r

\* the radio after the commands one handler invocation issued
RECURSIVE Execute(_, _)
Execute(r, cmds) ==
  IF cmds = <<>> THEN r
  ELSE Execute(IF Head(cmds).cmd = "startScanning"
               THEN esp_ble_gap_start_scanning(r) ELSE r, Tail(cmds))

\* the events the stack has for the callback in radio state r
CanDeliver(r, e) ==
  IF IsParamSetComplete(e) THEN r.pendParam
  ELSE IF IsInquiryComplete(e) THEN r.pendCmpl
  ELSE IF e.event = "ESP_GAP_BLE_SCAN_RESULT_EVT" THEN r.scanning
  ELSE TRUE

\* the stack's queue once e has been taken from it
Consume(r, e) ==
  IF IsParamSetComplete(e) THEN [r EXCEPT !.pendParam = FALSE]
  ELSE IF IsInquiryComplete(e) THEN [r EXCEPT !.pendCmpl = FALSE]
  ELSE r

\* the session state of the specification, read off the radio and the caller
StopPcs == {"stop_scanning", "unregister", "bluedroid_disable", "btStop"}

SessionState ==
  IF pc \in StopPcs THEN "Stopping"
  ELSE IF ~radio.cb THEN "Idle"
  ELSE IF radio.scanning \/ radio.pendCmpl THEN "Scanning"
  ELSE "ParamsPending"

----------------------------------------------------------------------------
(* Counters of what the handler has handled.                                *)

NoCount ==
  [events |-> 0, param |-> 0, cmpl |-> 0, pass |-> 0, start |-> 0, offer |-> 0,
   dropped |-> 0]

Starts(cmds) == Cardinality({i \in 1..Len(cmds) : cmds[i].cmd = "startScanning"})

\* e is a scan result of an address type the build's filter lets through
PassesFilter(b, e) ==
  /\ IsResult(e)
  /\ b.MACFILTER => e.ble_addr_type \in {"BLE_ADDR_TYPE_PUBLIC", "BLE_ADDR_TYPE_RPA_PUBLIC"}

\* ok: the sink took what mac_add handed it
Count(b, c, e, o, ok) ==
  [events |-> c.events + 1,
   param  |-> c.param + (IF IsParamSetComplete(e) THEN 1 ELSE 0),
   cmpl   |-> c.cmpl + (IF IsInquiryComplete(e) THEN 1 ELSE 0),
   pass   |-> c.pass + (IF PassesFilter(b, e) THEN 1 ELSE 0),
   start  |-> c.start + Starts(o.cmds),
   offer  |-> c.offer + Len(o.offers),
   dropped |-> c.dropped + (IF ok THEN 0 ELSE Len(o.offers))]

----------------------------------------------------------------------------
(* Initial states.                                                          *)

\* the builds that compile the scanner in: BLECOUNTER without LIBPAX
Builds ==
  [MACFILTER : BOOLEAN, COUNT_ENS : BOOLEAN, BLESCANTIME : ScanTimes,
   BLESCANWINDOW : ScanWindows, BLECOUNTER : {TRUE}, LIBPAX : {FALSE}]

\* the configurations setup() starts the scanner with
Configs == [enscount : BOOLEAN, blescantime : ScanCycleTimes, blescan : {TRUE}]

\* every build and every configuration setup() can run with
SetupBuilds ==
  [MACFILTER : BOOLEAN, COUNT_ENS : BOOLEAN, BLESCANTIME : ScanTimes,
   BLESCANWINDOW : ScanWindows, BLECOUNTER : BOOLEAN, LIBPAX : BOOLEAN]

SetupConfigs ==
  [enscount : BOOLEAN, blescantime : ScanCycleTimes, blescan : BOOLEAN]

\* ble_scan_params before the first call of register_ble_callback(false)
NoScanParams == [init |-> FALSE, scan_interval |-> 0, scan_window |-> 0]

\* (uint16_t) of a number that is not negative
ToUint16(x) == x % 65536

\* the initializer of ble_scan_params: Time = N * 0.625 msec
ScanParamsOf(b, c) ==
  [init |-> TRUE,
   scan_interval |-> ToUint16((c.blescantime * 10 * 8) \div 5),
   scan_window |-> ToUint16((b.BLESCANWINDOW * 8) \div 5)]

NoCall == [op |-> "none", from |-> "Idle", cmds |-> <<>>, failed |-> FALSE, n |-> 0]

Init ==
  /\ build \in Builds
  /\ cfg \in Configs
  /\ MacQueue = TRUE
  /\ ble_scan_params = NoScanParams
  /\ pc = "idle"
  /\ radio = RadioOff
  /\ call = NoCall
  /\ last = NoEvent
  /\ out = Nothing
  /\ cnt = NoCount

----------------------------------------------------------------------------
(* The radio stack's steps.                                                 *)

\* what mac_add can answer: the queue took the entry, or it was full
SinkAnswers(o) == IF o.offers = <<>> THEN {TRUE} ELSE BOOLEAN

\* a handler that hands a refused entry to the sink a second time
Invoke_retryOnFull(e, counting) ==
  /\ pc # "reset"
  /\ radio.cb /\ radio.bluedroid
  /\ \E o \in gap_callback_handler(build, cfg, e) : \E ok \in SinkAnswers(o) :
       /\ radio' = Execute(Consume(radio, e), o.cmds)
       /\ last' = e
       /\ out' = IF ok THEN o ELSE [o EXCEPT !.offers = @ \o @]
       /\ cnt' = IF counting THEN Count(build, cnt, e, o, ok) ELSE cnt
  /\ UNCHANGED <<build, cfg, MacQueue, ble_scan_params, pc, call>>

\* the stack calls the registered callback with e; the value mac_add
\* returns is not looked at
Invoke(e, counting) ==
  /\ pc # "reset"
  /\ radio.cb /\ radio.bluedroid
  /\ \E o \in gap_callback_handler(build, cfg, e) : \E ok \in SinkAnswers(o) :
       /\ radio' = Execute(Consume(radio, e), o.cmds)
       /\ last' = e
       /\ out' = o
       /\ cnt' = IF counting THEN Count(build, cnt, e, o, ok) ELSE cnt
  /\ UNCHANGED <<build, cfg, MacQueue, ble_scan_params, pc, call>>

\* the stack delivers an event it has
Handle(e, counting) ==
  /\ CanDeliver(radio, e)
  /\ Invoke(e, counting)

StackEvents ==
  {ParamSetCompleteEvt, InquiryCompleteEvt, OtherEvt, OtherSubEvt} \cup ScanResults

Deliver ==
  /\ cnt.events < MaxEvents
  /\ \E e \in StackEvents : Handle(e, TRUE)

\* the same deliveries, not counted and so without end
DeliverOther ==
  \E e \in StackEvents \ {InquiryCompleteEvt} : Handle(e, FALSE)

\* the stack delivers the queued inquiry-complete event
DeliverCompletion == Handle(InquiryCompleteEvt, FALSE)

\* the stack delivers the first scan result of a session, out of all
\* advertisements
DeliverResult ==
  /\ IsParamSetComplete(last)
  /\ \E e \in AllScanResults : Handle(e, FALSE)

\* the stack delivers a scan result of some device at some signal strength
DeliverSighting ==
  /\ cnt.events < MaxEvents
  /\ \E e \in SightingResults : Handle(e, TRUE)

\* an inquiry-complete event and the scan results of a public address
UnsolicitedEvents ==
  {InquiryCompleteEvt} \cup
    {e \in ScanResults : e.ble_addr_type = "BLE_ADDR_TYPE_PUBLIC"}

\* the stack calls the callback with a scan event the radio's state does not
\* account for
DeliverUnsolicited ==
  /\ cnt.events < MaxEvents
  /\ \E e \in UnsolicitedEvents :
       /\ ~CanDeliver(radio, e)
       /\ Invoke(e, TRUE)

\* a queued event finds no callback registered and is discarded
DropEvent ==
  /\ pc # "reset"
  /\ ~radio.cb
  /\ radio.pendParam \/ radio.pendCmpl
  /\ radio' = [radio EXCEPT !.pendParam = FALSE, !.pendCmpl = FALSE]
  /\ UNCHANGED <<build, cfg, MacQueue, ble_scan_params, pc, call, last, out, cnt>>

\* a scan of BLESCANTIME > 0 seconds ends: the radio halts and the stack
\* queues the inquiry-complete event
ScanWindowElapsed ==
  /\ pc # "reset"
  /\ radio.scanning
  /\ build.BLESCANTIME > 0
  /\ radio' = [radio EXCEPT !.scanning = FALSE, !.pendCmpl = TRUE]
  /\ UNCHANGED <<build, cfg, MacQueue, ble_scan_params, pc, call, last, out, cnt>>

----------------------------------------------------------------------------
(* start_BLEscan and stop_BLEscan, one step per call into the radio stack.  *)

\* the entry-point record of a new call
NewCall(op) ==
  [op |-> op, from |-> SessionState, cmds |-> <<>>, failed |-> FALSE, n |-> call.n + 1]

\* a step of a call: the command it issued (if any) and whether it failed
Did(cmds, ok) ==
  [call EXCEPT !.cmds = @ \o cmds, !.failed = @ \/ ~ok]

\* do_reset(true): the device restarts
do_reset ==
  /\ pc' = "reset"
  /\ radio' = RadioOff

\* start_BLEscan is called on a session without handler
StartCall ==
  /\ pc = "idle"
  /\ call.n < MaxCalls
  /\ ~radio.cb
  /\ pc' = "btStart"
  /\ call' = NewCall("start")
  /\ UNCHANGED <<build, cfg, MacQueue, ble_scan_params, radio, last, out, cnt>>

\* a start_BLEscan that goes on after btStart() has failed
BtStart_failureIgnored ==
  /\ pc = "btStart"
  /\ \E ok \in (IF radio.controller THEN {TRUE} ELSE BOOLEAN) :
       /\ call' = Did(<<>>, ok)
       /\ radio' = [radio EXCEPT !.controller = @ \/ ok]
       /\ pc' = "bluedroid_enable"
  /\ UNCHANGED <<build, cfg, MacQueue, ble_scan_params, last, out, cnt>>

\* if (btStart()) ... else do_reset(true)
BtStart ==
  /\ pc = "btStart"
  /\ \E ok \in (IF radio.controller THEN {TRUE} ELSE BOOLEAN) :
       /\ call' = Did(<<>>, ok)
       /\ IF ok
          THEN /\ radio' = [radio EXCEPT !.controller = TRUE]
               /\ pc' = "bluedroid_enable"
          ELSE do_reset
  /\ UNCHANGED <<build, cfg, MacQueue, ble_scan_params, last, out, cnt>>

\* esp_bluedroid_init(); esp_bluedroid_enable(); the results are not read
BluedroidEnable ==
  /\ pc = "bluedroid_enable"
  /\ \E ok \in BOOLEAN :
       /\ radio' = [radio EXCEPT !.bluedroid = @ \/ ok]
       /\ call' = Did(<<>>, ok)
  /\ pc' = "register"
  /\ UNCHANGED <<build, cfg, MacQueue, ble_scan_params, last, out, cnt>>

\* a register_ble_callback(false) that sets the parameters without having
\* registered the callback
RegisterCallback_notRegistered ==
  /\ pc = "register"
  /\ pc' = "set_scan_params"
  /\ UNCHANGED <<build, cfg, MacQueue, ble_scan_params, radio, call, last, out, cnt>>

\* register_ble_callback(false): esp_ble_gap_register_callback(&gap_callback_handler),
\* which the stack accepts when the host stack is enabled; the result is not read
RegisterCallback ==
  /\ pc = "register"
  /\ radio' = [radio EXCEPT !.cb = radio.bluedroid]
  /\ call' = Did(<<"registerHandler">>, radio.bluedroid)
  /\ pc' = "set_scan_params"
  /\ UNCHANGED <<build, cfg, MacQueue, ble_scan_params, last, out, cnt>>

\* register_ble_callback(false): esp_ble_gap_set_scan_params(&ble_scan_params);
\* the result is not read, and the call returns ESP_OK
SetScanParams ==
  /\ pc = "set_scan_params"
  /\ \E ok \in (IF radio.bluedroid THEN BOOLEAN ELSE {FALSE}) :
       /\ radio' = IF ok THEN [radio EXCEPT !.params = TRUE, !.pendParam = TRUE]
                   ELSE radio
       /\ call' = Did(<<"setScanParameters">>, ok)
  /\ ble_scan_params' = IF ble_scan_params.init THEN ble_scan_params
                        ELSE ScanParamsOf(build, cfg)
  /\ pc' = "idle"
  /\ UNCHANGED <<build, cfg, MacQueue, last, out, cnt>>

\* stop_BLEscan is called, whatever the session's state
StopCall ==
  /\ pc = "idle"
  /\ call.n < MaxCalls
  /\ pc' = "stop_scanning"
  /\ call' = NewCall("stop")
  /\ UNCHANGED <<build, cfg, MacQueue, ble_scan_params, radio, last, out, cnt>>

\* a stop_BLEscan that removes the callback without stopping the scan first
StopScanning_notIssued ==
  /\ pc = "stop_scanning"
  /\ pc' = "unregister"
  /\ UNCHANGED <<build, cfg, MacQueue, ble_scan_params, radio, call, last, out, cnt>>

\* register_ble_callback(true): esp_ble_gap_stop_scanning()
StopScanning ==
  /\ pc = "stop_scanning"
  /\ radio' = esp_ble_gap_stop_scanning(radio)
  /\ call' = Did(<<"stopScanning">>, radio.bluedroid)
  /\ pc' = "unregister"
  /\ UNCHANGED <<build, cfg, MacQueue, ble_scan_params, last, out, cnt>>

\* register_ble_callback(true): esp_ble_gap_register_callback(NULL)
UnregisterCallback ==
  /\ pc = "unregister"
  /\ radio' = [radio EXCEPT !.cb = FALSE]
  /\ call' = Did(<<"unregisterHandler">>, radio.bluedroid)
  /\ pc' = "bluedroid_disable"
  /\ UNCHANGED <<build, cfg, MacQueue, ble_scan_params, last, out, cnt>>

\* esp_bluedroid_disable(); esp_bluedroid_deinit(): the host stack goes down
\* with its scan, its parameters and its queue
BluedroidDisable ==
  /\ pc = "bluedroid_disable"
  /\ radio' = [RadioOff EXCEPT !.controller = radio.controller]
  /\ call' = Did(<<>>, radio.bluedroid)
  /\ pc' = "btStop"
  /\ UNCHANGED <<build, cfg, MacQueue, ble_scan_params, last, out, cnt>>

\* if (!btStop()) do_reset(true); btStop() of a controller that is not
\* running returns true
BtStop ==
  /\ pc = "btStop"
  /\ \E ok \in (IF radio.controller THEN BOOLEAN ELSE {TRUE}) :
       /\ call' = Did(<<>>, ok)
       /\ IF ok
          THEN /\ radio' = [radio EXCEPT !.controller = FALSE]
               /\ pc' = "idle"
          ELSE do_reset
  /\ UNCHANGED <<build, cfg, MacQueue, ble_scan_params, last, out, cnt>>

----------------------------------------------------------------------------
(* Specifications.                                                          *)

Next ==
  \/ StartCall \/ BtStart \/ BluedroidEnable \/ RegisterCallback \/ SetScanParams
  \/ StopCall \/ StopScanning \/ UnregisterCallback \/ BluedroidDisable \/ BtStop
  \/ Deliver \/ DropEvent \/ ScanWindowElapsed

Spec == Init /\ [][Next]_vars

\* The session with deliveries that are not counted: the stack's task runs the
\* callback for every event it has queued, so a queued inquiry-complete
\* event is delivered unless the callback is unregistered first.
LiveNext ==
  \/ StartCall \/ BtStart \/ BluedroidEnable \/ RegisterCallback \/ SetScanParams
  \/ StopCall \/ StopScanning \/ UnregisterCallback \/ BluedroidDisable \/ BtStop
  \/ DeliverOther \/ DeliverCompletion \/ DropEvent \/ ScanWindowElapsed

LiveSpec == Init /\ [][LiveNext]_vars /\ WF_vars(DeliverCompletion)

\* The session under a stack that is not held to its own state: the callback
\* is a global function the stack calls, and nothing in it tells whether the
\* event it is called with was due.
OpenNext ==
  \/ StartCall \/ BtStart \/ BluedroidEnable \/ RegisterCallback \/ SetScanParams
  \/ StopCall \/ StopScanning \/ UnregisterCallback \/ BluedroidDisable \/ BtStop
  \/ Deliver \/ DeliverUnsolicited \/ DropEvent \/ ScanWindowElapsed

OpenSpec == Init /\ [][OpenNext]_vars

\* setup() of main.cpp, from the start of the MAC processor on: the state
\* before macQueueInit(), in every build and configuration
SetupInit ==
  /\ build \in SetupBuilds
  /\ cfg \in SetupConfigs
  /\ MacQueue = FALSE
  /\ ble_scan_params = NoScanParams
  /\ pc = "macQueueInit"
  /\ radio = RadioOff
  /\ call = NoCall
  /\ last = NoEvent
  /\ out = Nothing
  /\ cnt = NoCount

\* a setup() that goes on without having created the queue
SetupMacQueue_skipped ==
  /\ pc = "macQueueInit"
  /\ pc' = "ble_setup"
  /\ UNCHANGED <<build, cfg, MacQueue, ble_scan_params, radio, call, last, out, cnt>>

\* #if !(LIBPAX) macQueueInit();
SetupMacQueue ==
  /\ pc = "macQueueInit"
  /\ MacQueue' = ~build.LIBPAX
  /\ pc' = "ble_setup"
  /\ UNCHANGED <<build, cfg, ble_scan_params, radio, call, last, out, cnt>>

\* a setup() that starts the scanner without looking at cfg.blescan
SetupStartBLE_always ==
  /\ pc = "ble_setup"
  /\ build.BLECOUNTER /\ ~build.LIBPAX
  /\ pc' = "btStart"
  /\ call' = NewCall("start")
  /\ UNCHANGED <<build, cfg, MacQueue, ble_scan_params, radio, last, out, cnt>>

\* #if (BLECOUNTER) #if !(LIBPAX) if (cfg.blescan) start_BLEscan();
SetupStartBLE ==
  /\ pc = "ble_setup"
  /\ build.BLECOUNTER /\ ~build.LIBPAX
  /\ cfg.blescan
  /\ pc' = "btStart"
  /\ call' = NewCall("start")
  /\ UNCHANGED <<build, cfg, MacQueue, ble_scan_params, radio, last, out, cnt>>

\* ... else btStop(); and, without BLECOUNTER, btStop(); esp_bt_mem_release();
\* with LIBPAX neither is compiled in. What btStop() returns is not read.
SetupNoBLE ==
  /\ pc = "ble_setup"
  /\ ~(build.BLECOUNTER /\ ~build.LIBPAX /\ cfg.blescan)
  /\ \E ok \in (IF radio.controller THEN BOOLEAN ELSE {TRUE}) :
       radio' = IF build.LIBPAX THEN radio
                ELSE [radio EXCEPT !.controller = @ /\ ~ok]
  /\ pc' = "idle"
  /\ UNCHANGED <<build, cfg, MacQueue, ble_scan_params, call, last, out, cnt>>

\* setup() and what follows it: start_BLEscan has no caller but setup(), and
\* stop_BLEscan has none
SetupNext ==
  \/ SetupMacQueue \/ SetupStartBLE \/ SetupNoBLE
  \/ BtStart \/ BluedroidEnable \/ RegisterCallback \/ SetScanParams
  \/ Deliver \/ ScanWindowElapsed

SetupSpec == SetupInit /\ [][SetupNext]_vars

\* A session that start_BLEscan and the parameter-set-complete event have
\* brought to scanning, in every build and configuration
ClassifyInit ==
  /\ build \in Builds
  /\ cfg \in Configs
  /\ MacQueue = TRUE
  /\ ble_scan_params = ScanParamsOf(build, cfg)
  /\ pc = "idle"
  /\ radio = [controller |-> TRUE, bluedroid |-> TRUE, cb |-> TRUE, params |-> TRUE,
              scanning |-> TRUE, pendParam |-> FALSE, pendCmpl |-> FALSE]
  /\ call = [op |-> "start", from |-> "Idle",
             cmds |-> <<"registerHandler", "setScanParameters">>,
             failed |-> FALSE, n |-> 1]
  /\ last = ParamSetCompleteEvt
  /\ out = [Nothing EXCEPT !.cmds = <<StartScanningCmd(build)>>]
  /\ cnt = [NoCount EXCEPT !.events = 1, !.param = 1, !.start = 1]

\* Classification of every advertisement of at most AdvBufLen bytes
ClassifySpec == ClassifyInit /\ [][DeliverResult]_vars

\* Scan results of several devices, one after the other, in a scanning session
SightingSpec == ClassifyInit /\ [][DeliverSighting]_vars

----------------------------------------------------------------------------
(* Properties.                                                              *)

\* this step is an invocation of the handler that cnt counts
HandlerStep == cnt'.events = cnt.events + 1

RandomTypes == {"BLE_ADDR_TYPE_RANDOM", "BLE_ADDR_TYPE_RPA_RANDOM"}

PublicTypes == {"BLE_ADDR_TYPE_PUBLIC", "BLE_ADDR_TYPE_RPA_PUBLIC"}

\* signature matching is compiled in and switched on
SignatureMatchEnabled == build.COUNT_ENS /\ cfg.enscount

\* C1: handling a ParamSetComplete event issues exactly one radio command,
\* startScanning with the build's duration, and when the last call was start()
\* the session state after the event is Scanning.
C1_ParamSetCompleteStartsScan ==
  [][(HandlerStep /\ IsParamSetComplete(last')) =>
       /\ out'.cmds = <<[cmd |-> "startScanning", duration |-> build.BLESCANTIME]>>
       /\ cnt'.start = cnt.start + 1
       /\ (call.op = "start" => SessionState' = "Scanning")]_vars

C1_Witness ==
  /\ IsParamSetComplete(last)
  /\ call.op = "start"
  /\ cnt.start = 1
  /\ SessionState = "Scanning"

\* C2: handling an InquiryComplete sub-event in state Scanning issues exactly
\* one startScanning command (one more than before, so n events give n
\* commands) and leaves the state Scanning.
C2_InquiryCompleteRestartsOnce ==
  [][(HandlerStep /\ IsInquiryComplete(last') /\ SessionState = "Scanning") =>
       /\ Len(out'.cmds) = 1
       /\ out'.cmds[1].cmd = "startScanning"
       /\ cnt'.start = cnt.start + 1
       /\ cnt'.cmpl = cnt.cmpl + 1
       /\ SessionState' = "Scanning"]_vars

C2_Witness ==
  /\ IsInquiryComplete(last)
  /\ cnt.cmpl = 2
  /\ cnt.start = 3
  /\ SessionState = "Scanning"

\* C3: under fair delivery of the queued inquiry-complete event, a session in
\* state Scanning whose radio has halted is scanning again later, unless
\* stop_BLEscan is called: the radio never stays halted.
C3_ContinuousScanning ==
  [](SessionState = "Scanning" => <>(radio.scanning \/ pc \in StopPcs))

C3_Witness ==
  /\ IsInquiryComplete(last)
  /\ out.cmds # <<>>
  /\ radio.scanning
  /\ pc = "idle"

\* C4: with the address filter compiled in, a scan result of address type
\* Random or ResolvablePrivateRandom leads to no mac_add call, whatever its
\* rssi, its payload and the signature switch.
C4_RandomFiltered ==
  (IsResult(last) /\ last.ble_addr_type \in RandomTypes /\ build.MACFILTER)
    => (out.offers = <<>> /\ ~out.passed)

C4_Witness ==
  /\ IsResult(last)
  /\ last.ble_addr_type = "BLE_ADDR_TYPE_RPA_RANDOM"
  /\ build.MACFILTER
  /\ SignatureMatchEnabled
  /\ cnt.events = 3 /\ cnt.offer = 1

\* C5: with the address filter compiled in or not, a scan result of address
\* type Public or ResolvablePrivatePublic is not rejected by the filter: the
\* handler reaches the step that adds the address to the queue.
C5_PublicNeverFiltered ==
  (IsResult(last) /\ last.ble_addr_type \in PublicTypes) => out.passed

C5_Witness ==
  /\ IsResult(last)
  /\ last.ble_addr_type = "BLE_ADDR_TYPE_RPA_PUBLIC"
  /\ build.MACFILTER
  /\ out.passed

\* C6: with signature matching enabled, a scan result that passes the filter
\* is added as MAC_SNIFF_BLE_ENS when the signature occurs in its payload,
\* and as MAC_SNIFF_BLE when it does not.
C6_SignatureIsSubstring ==
  (PassesFilter(build, last) /\ SignatureMatchEnabled) =>
    out.offers = <<mac_add(last, IF Occurs(ensMagicBytes, last.payload)
                                 THEN "MAC_SNIFF_BLE_ENS" ELSE "MAC_SNIFF_BLE")>>

\* C7: with signature matching disabled, a scan result that passes the filter
\* is added as MAC_SNIFF_BLE.
C7_DisabledMeansGeneric ==
  (PassesFilter(build, last) /\ ~SignatureMatchEnabled) =>
    out.offers = <<mac_add(last, "MAC_SNIFF_BLE")>>

\* C8: an invocation of the handler calls mac_add at most once, and only for
\* a scan result that passes the filter; the mac_add calls never outnumber
\* the scan results that passed the filter.
C8_SightingOnlyForPassedResult ==
  /\ Len(out.offers) <= 1
  /\ (out.offers # <<>> => PassesFilter(build, last))
  /\ cnt.offer <= cnt.pass

C8_Witness ==
  /\ cnt.param = 1 /\ cnt.cmpl = 1
  /\ cnt.pass = 1 /\ cnt.offer = 1
  /\ Len(out.offers) = 1

\* C9: a call of start_BLEscan in which a call into the radio stack failed
\* does not return but restarts the device, and a call of stop_BLEscan that
\* returns has shut the controller down.
C9_FailureRestartsDevice ==
  /\ (call.op = "start" /\ call.failed => pc # "idle")
  /\ (call.op = "stop" /\ pc = "idle" => ~radio.controller)

\* C10: a call of stop_BLEscan on an Idle session issues no radio command,
\* leaves the session Idle and does not restart the device.
C10_StopOnIdleIsNoop ==
  (call.op = "stop" /\ call.from = "Idle" /\ pc \in {"idle", "reset"}) =>
    /\ call.cmds = <<>>
    /\ SessionState = "Idle"
    /\ pc # "reset"

\* C11: once stop_BLEscan has been entered (state Stopping) no delivered event
\* makes the handler issue a radio command or hand an entry to the sink; in
\* particular an inquiry-complete event delivered between the stop-scanning
\* command and the removal of the callback does not start scanning again.
C11_NoEffectWhileStopping ==
  [][(HandlerStep /\ SessionState = "Stopping") =>
       (out'.cmds = <<>> /\ out'.offers = <<>> /\ ~radio'.scanning)]_vars

\* C12: an inquiry-complete event or a scan result delivered to the handler
\* while the session is Idle or ParamsPending is ignored: no radio command, no
\* entry handed to the sink, and the session state stays what it was.
C12_IgnoredOutsideScanning ==
  [][(/\ HandlerStep
      /\ IsInquiryComplete(last') \/ IsResult(last')
      /\ SessionState \in {"Idle", "ParamsPending"}) =>
       (out'.cmds = <<>> /\ out'.offers = <<>> /\ SessionState' = SessionState)]_vars

StopCmds == <<"stopScanning", "unregisterHandler">>

ParamsSubmitted == ble_scan_params.init

\* C14: for every value of cfg.blescantime the parameters submitted to the
\* radio have scan_window <= scan_interval (both in units of 0.625 ms), and
\* both are the unwrapped values of their formulas.
C14_WindowWithinInterval ==
  ParamsSubmitted =>
    /\ ble_scan_params.scan_window <= ble_scan_params.scan_interval
    /\ ble_scan_params.scan_interval = (cfg.blescantime * 10 * 8) \div 5
    /\ ble_scan_params.scan_window = (build.BLESCANWINDOW * 8) \div 5

\* an event or a sub-event the handler has no case for
IsUnknown(e) ==
  \/ e.event \notin {"NONE", "ESP_GAP_BLE_SCAN_PARAM_SET_COMPLETE_EVT",
                     "ESP_GAP_BLE_SCAN_RESULT_EVT"}
  \/ /\ e.event = "ESP_GAP_BLE_SCAN_RESULT_EVT"
     /\ e.search_evt \notin {"ESP_GAP_SEARCH_INQ_CMPL_EVT",
                             "ESP_GAP_SEARCH_INQ_RES_EVT"}

\* C15: no run of the handler restarts the device or moves a caller: every
\* delivered event leaves the program where it was, and an event of an unknown
\* kind or sub-event issues no radio command, hands nothing to the sink and
\* changes neither the radio nor the session state.
C15_HandlerNeverResets ==
  [][HandlerStep =>
       /\ pc' = pc /\ pc' # "reset" /\ call' = call
       /\ IsUnknown(last') =>
            /\ out' = Nothing
            /\ radio' = radio
            /\ SessionState' = SessionState
            /\ cnt'.start = cnt.start /\ cnt'.offer = cnt.offer]_vars

C15_Witness ==
  /\ IsUnknown(last) /\ last.event = "ESP_GAP_BLE_SCAN_RESULT_EVT"
  /\ cnt.events = 3 /\ cnt.start = 1 /\ cnt.offer = 1
  /\ SessionState = "Scanning"

\* the sink refused the entry the handler handed to it in this step
SinkRefused == cnt'.dropped = cnt.dropped + 1

\* C16: when the sink refuses an entry (mac_add's queue is full) the entry is
\* dropped: the handler has called mac_add once and not again, issues no radio
\* command, leaves the radio and the session state alone; and an
\* inquiry-complete event that comes after a refusal is still answered with
\* one start-scanning command.
C16_DropDoesNotStall ==
  /\ [][(HandlerStep /\ SinkRefused) =>
          /\ Len(out'.offers) = 1 /\ cnt'.offer = cnt.offer + 1
          /\ out'.cmds = <<>>
          /\ radio' = radio /\ pc' = pc
          /\ SessionState' = SessionState]_vars
  /\ [][(HandlerStep /\ cnt.dropped > 0 /\ IsInquiryComplete(last')) =>
          /\ Len(out'.cmds) = 1 /\ out'.cmds[1].cmd = "startScanning"
          /\ radio'.scanning]_vars

C16_Witness ==
  /\ cnt.dropped = 1 /\ cnt.offer = 1 /\ cnt.events = 3
  /\ IsInquiryComplete(last) /\ out.cmds # <<>>
  /\ SessionState = "Scanning"

\* the duration of command x, [seconds], in units of 0.625 ms
DurationTicks(x) == (x.duration * 1000 * 8) \div 5

\* every command the handler issued in its last run carries duration d
AllDurations(d) == \A i \in 1..Len(out.cmds) : out.cmds[i].duration = d

StartCmds == <<"registerHandler", "setScanParameters">>

\* C18: start_BLEscan registers the callback before it submits the scan
\* parameters, so while the parameter-set-complete event of a start is
\* pending the callback is installed, and that event leaves the stack's queue
\* only by being handed to the handler.
C18_RegisteredBeforeParams ==
  /\ []((call.op = "start" /\ pc = "set_scan_params") =>
          call.cmds = SubSeq(StartCmds, 1, 1))
  /\ []((call.op = "start" /\ radio.pendParam) =>
          (radio.cb /\ call.cmds = StartCmds))
  /\ [][(call'.op = "start" /\ radio.pendParam /\ ~radio'.pendParam) =>
          (HandlerStep /\ IsParamSetComplete(last'))]_vars

C18_Witness ==
  /\ call.op = "start" /\ call.cmds = StartCmds /\ pc = "idle"
  /\ IsParamSetComplete(last) /\ cnt.param = 1 /\ ~radio.pendParam
  /\ SessionState = "Scanning"

\* C19: handling a scan result issues no radio command and changes neither
\* the radio nor the session state; the handler issues no command but
\* start-scanning; and the start-scanning commands issued in all are as many
\* as the parameter-set-complete and inquiry-complete events handled.
C19_StartsEqualCompletions ==
  /\ [](cnt.start = cnt.param + cnt.cmpl)
  /\ [](\A i \in 1..Len(out.cmds) : out.cmds[i].cmd = "startScanning")
  /\ [][(HandlerStep /\ IsResult(last')) =>
          /\ out'.cmds = <<>> /\ cnt'.start = cnt.start
          /\ radio' = radio /\ pc' = pc
          /\ SessionState' = SessionState]_vars

C19_Witness ==
  /\ IsResult(last) /\ out.offers # <<>> /\ out.cmds = <<>>
  /\ cnt.events = 3 /\ cnt.param = 1 /\ cnt.cmpl = 1 /\ cnt.start = 2
  /\ radio.scanning

\* btStart() of the running call has failed
BtStartFailed == call.op = "start" /\ call.failed /\ ~radio.controller

\* C20: when btStart() fails in start_BLEscan the device restarts at once: no
\* callback is registered, no set-scan-parameters and no start-scanning
\* command is issued, no event is handled, and the session stays Idle.
C20_FailedStartStaysIdle ==
  /\ [](BtStartFailed =>
          /\ pc = "reset"
          /\ call.cmds = <<>>
          /\ ~radio.cb /\ ~radio.params /\ ~radio.scanning
          /\ SessionState = "Idle")
  /\ [][(pc = "btStart" /\ call'.failed) =>
          /\ pc' = "reset" /\ call'.cmds = <<>>
          /\ cnt' = cnt /\ out' = out
          /\ SessionState = "Idle" /\ SessionState' = "Idle"]_vars

C20_Witness ==
  /\ BtStartFailed /\ pc = "reset" /\ call.n = 3
  /\ cnt.param = 1 /\ cnt.start = 1

\* C21: setup() creates the MAC queue before it starts the BLE scan: once
\* start_BLEscan has been entered the queue exists, so no scan result is
\* handled and no entry handed to mac_add before it does.
C21_SinkBeforeScan ==
  /\ call.op = "start" => MacQueue
  /\ (radio.controller \/ radio.cb \/ radio.scanning) => MacQueue
  /\ (IsResult(last) \/ out.offers # <<>> \/ cnt.offer > 0) => MacQueue

C21_Witness ==
  /\ MacQueue /\ call.op = "start" /\ call.n = 1
  /\ IsResult(last) /\ Len(out.offers) = 1 /\ cnt.offer = 1 /\ cnt.events = 2

\* setup() has passed its BLE step
SetupDone == pc \notin {"macQueueInit", "ble_setup"}

\* C22: setup() calls start_BLEscan only when cfg.blescan is set; with
\* cfg.blescan clear the controller is not running after setup's BLE step, no
\* callback is ever registered, no radio command is issued, no event handled
\* and nothing handed to the sink.
C22_StartOnlyIfEnabled ==
  /\ call.op = "start" => (cfg.blescan /\ build.BLECOUNTER /\ ~build.LIBPAX)
  /\ ~cfg.blescan =>
       /\ SetupDone => (pc = "idle" /\ ~radio.controller)
       /\ ~radio.cb /\ ~radio.bluedroid /\ ~radio.scanning
       /\ call.cmds = <<>>
       /\ cnt = NoCount /\ out = Nothing
       /\ ~ENABLED Deliver

C22_Witness ==
  /\ ~cfg.blescan /\ build.BLECOUNTER /\ ~build.LIBPAX
  /\ SetupDone /\ pc = "idle" /\ MacQueue /\ ~radio.controller

SniffTypes == {"MAC_SNIFF_BLE", "MAC_SNIFF_BLE_ENS"}

\* C23: every entry handed to the sink has the address and the signal
\* strength of the scan result being handled, unchanged, whatever was handled
\* before; its kind is MAC_SNIFF_BLE or MAC_SNIFF_BLE_ENS, and it has no other
\* field.
C23_SightingCarriesResult ==
  /\ out.offers # <<>> => IsResult(last)
  /\ \A i \in 1..Len(out.offers) :
       /\ DOMAIN out.offers[i] = {"address", "rssi", "kind"}
       /\ out.offers[i].address = last.bda
       /\ out.offers[i].rssi = last.rssi
       /\ out.offers[i].kind \in SniffTypes

C23_Witness ==
  /\ cnt.offer = 2 /\ cnt.events = 3 /\ Len(out.offers) = 1
  /\ last.bda = "bda2" /\ last.rssi = -128
  /\ out.offers[1].kind = "MAC_SNIFF_BLE_ENS"

============================================================================
